---- MODULE Spec2Model ----
(***************************************************************************)
(* A model of prody/ensemble/functions.py: refineEnsemble,                 *)
(* calcOccupancies, trimPDBEnsemble, buildPDBEnsemble and                  *)
(* alignPDBEnsemble.  Each function is modelled under a specification of   *)
(* its own (SpecRefine, SpecTrim, SpecBuild, SpecAlign); the variables of  *)
(* the other functions stay at their idle values.                          *)
(*                                                                         *)
(* Python's None is the empty sequence <<>>, a present value v is <<v>>.   *)
(* Conformation indices are 0-based as in the source; atom positions are   *)
(* 1-based (position p stands for numpy column p-1).                       *)
(***************************************************************************)
EXTENDS Integers, Sequences, FiniteSets, TLC

VARIABLES
    \* refineEnsemble
    rin,        \* inputs: n, RMSDs, lower, upper, ref_i, protected
    rpc,        \* "start" | "done"
    L, U, I,    \* survivors of the lower pass, of the upper pass, returned indices
    scan,       \* one pass of getRefinedIndices run pair by pair: A, P, ref_i,
                \* sorted_indices, the loop indices a and b, isdel_temp, and
                \* the pair the loop body last ran on
    res,        \* the resolution of protected and ref to indices: the labels,
                \* the arguments, the position in the code, the loop index,
                \* the local i, P, ref_i, the warnings logged, the exception
    \* trimPDBEnsemble / calcOccupancies
    ens,        \* the current PDBEnsemble
    tsrc,       \* the ensemble the last operation was called on
    top,        \* the last operation and its arguments
    tres,       \* what the last operation returned or raised
    kept,       \* intersection of the keep-sets of the soft trims applied since
                \* the underlying atom set was last rebuilt (underlying positions)
    \* buildPDBEnsemble
    bin,        \* inputs: atomics, occupancy
    bpc,        \* "start" | "loop" | "trim" | "superpose" | "done" | "raised"
    bi,         \* loop index into atomics
    bens,       \* the ensemble being built
    bpre,       \* the ensemble as it was before the occupancy trim
    unmapped,   \* the unmapped output list
    nmaps,      \* per processed input, the number of AtomMaps the mapper returned
    berr,       \* the exception raised, if any
    \* alignPDBEnsemble
    afiles,     \* per PDB identifier: does fetchPDB find a file
    ancs,       \* per PDB identifier: numCoordsets of the parsed structure
    apc,        \* "loop" | "done" | "raised"
    aconfs,     \* the conformations iterated so far
    output,     \* the output list
    pdbdict,    \* identifier -> cached AtomGroup
    writes,     \* the writePDB calls made so far
    aret        \* the returned value

rvars == <<rin, rpc, L, U, I, scan, res>>
tvars == <<ens, tsrc, top, tres, kept>>
bvars == <<bin, bpc, bi, bens, bpre, unmapped, nmaps, berr>>
avars == <<afiles, ancs, apc, aconfs, output, pdbdict, writes, aret>>
vars == <<rvars, tvars, bvars, avars>>

None == <<>>
Some(v) == <<v>>
IsNone(o) == o = <<>>
Val(o) == o[1]

Range(s) == {s[k] : k \in DOMAIN s}

(***************************************************************************)
(* Idle values of each group of variables.                                 *)
(***************************************************************************)
RIdle ==
    /\ rin = [n |-> 0] /\ rpc = "idle" /\ L = {} /\ U = {} /\ I = <<>>
    /\ scan = <<>> /\ res = <<>>
TIdle ==
    /\ ens = <<>> /\ tsrc = <<>> /\ top = <<>> /\ tres = <<>> /\ kept = {}
BIdle ==
    /\ bin = <<>> /\ bpc = "idle" /\ bi = 0 /\ bens = <<>> /\ bpre = <<>>
    /\ unmapped = <<>> /\ nmaps = <<>> /\ berr = ""
AIdle ==
    /\ afiles = <<>> /\ ancs = <<>> /\ apc = "idle" /\ aconfs = <<>>
    /\ output = <<>> /\ pdbdict = <<>> /\ writes = <<>> /\ aret = <<>>

(***************************************************************************)
(* refineEnsemble                                                          *)
(***************************************************************************)
MaxConfs == 3
RMSDValues == {0, 1, 2}
LowerValues == {None, Some(1)}
UpperValues == {None, Some(1)}

Confs(n) == 0 .. (n - 1)

\* ensemble.getRMSDs(pairwise=True): symmetric, zero on the diagonal
RMSDMatrices(n) ==
    LET pairs == {p \in Confs(n) \X Confs(n) : p[1] < p[2]}
    IN  {[i \in Confs(n) |-> [j \in Confs(n) |->
             IF i = j THEN 0
             ELSE IF i < j THEN t[<<i, j>>] ELSE t[<<j, i>>]]] :
         t \in [pairs -> RMSDValues]}

\* protected resolved to indices, the reference prepended when missing
ResolveP(ref_i, protected) ==
    IF ref_i \in protected THEN protected ELSE {ref_i} \cup protected

\* A = RMSDs < lower
BelowLower(RMSDs, lower, n) ==
    [i \in Confs(n) |-> [j \in Confs(n) |-> RMSDs[i][j] < lower]]

\* B = RMSDs > upper
AboveUpper(RMSDs, upper, n) ==
    [i \in Confs(n) |-> [j \in Confs(n) |-> RMSDs[i][j] > upper]]

\* deg = A.sum(axis=0)
Deg(A, n) ==
    [j \in Confs(n) |-> Cardinality({i \in Confs(n) : A[i][j]})]

\* the arrangements of the indices S by ascending degree, as lists
RECURSIVE Ascending(_, _)
Ascending(S, deg) ==
    IF S = {} THEN {<<>>}
    ELSE LET least == {x \in S : \A y \in S : deg[x] <= deg[y]}
         IN  UNION {{<<x>> \o rest : rest \in Ascending(S \ {x}, deg)} :
                    x \in least}

\* list(argsort(deg)): the indices by ascending degree; numpy's default sort
\* is not stable, so the order among equal degrees is any order.  The list is
\* a function of the 0-based position
ArgSorts(deg, n) ==
    {[a \in Confs(n) |-> l[a + 1]] : l \in Ascending(Confs(n), deg)}

\* sorted_indices.remove(ref_i); sorted_indices.insert(0, ref_i)
RefFirst(s, ref_i, n) ==
    LET at == CHOOSE a \in Confs(n) : s[a] = ref_i
    IN  [a \in Confs(n) |->
            IF a = 0 THEN ref_i ELSE IF a <= at THEN s[a - 1] ELSE s[a]]

ScanPairAlwaysJ(A, P, isdel, i, j) ==
    IF isdel[i] \/ isdel[j] THEN isdel
    ELSE IF A[i][j] THEN [isdel EXCEPT ![j] = TRUE]
    ELSE isdel

ScanPairIfNotElif(A, P, isdel, i, j) ==
    IF isdel[i] \/ isdel[j] THEN isdel
    ELSE IF A[i][j]
         THEN [k \in DOMAIN isdel |->
                 isdel[k] \/ (k = j /\ j \notin P) \/ (k = i /\ i \notin P)]
         ELSE isdel

ScanPairElse(A, P, isdel, i, j) ==
    IF isdel[i] \/ isdel[j] THEN isdel
    ELSE IF A[i][j]
         THEN IF j \notin P THEN [isdel EXCEPT ![j] = TRUE]
              ELSE [isdel EXCEPT ![i] = TRUE]
         ELSE isdel

ScanPairNoElif(A, P, isdel, i, j) ==
    IF isdel[i] \/ isdel[j] THEN isdel
    ELSE IF A[i][j] /\ j \notin P THEN [isdel EXCEPT ![j] = TRUE]
    ELSE isdel

\* the body of the double loop for one pair, i scanned before j
ScanPair(A, P, isdel, i, j) ==
    IF isdel[i] \/ isdel[j] THEN isdel
    ELSE IF A[i][j]
         THEN IF j \notin P THEN [isdel EXCEPT ![j] = TRUE]
              ELSE IF i \notin P THEN [isdel EXCEPT ![i] = TRUE]
              ELSE isdel
         ELSE isdel

\* for a in range(n_confs): for b in range(n_confs): if a >= b: continue
RECURSIVE Scan(_, _, _, _, _, _, _)
Scan(A, P, order, n, isdel, a, b) ==
    IF a >= n THEN isdel
    ELSE IF b >= n THEN Scan(A, P, order, n, isdel, a + 1, 0)
    ELSE Scan(A, P, order, n,
              IF a >= b THEN isdel
              ELSE ScanPair(A, P, isdel, order[a], order[b]),
              a, b + 1)

\* getRefinedIndices(A) for one outcome s of argsort: the indices not deleted
getRefinedIndices(A, P, ref_i, n, s) ==
    LET order == RefFirst(s, ref_i, n)
        isdel == Scan(A, P, order, n, [i \in Confs(n) |-> FALSE], 0, 0)
    IN  {i \in Confs(n) : ~isdel[i]}

\* the results getRefinedIndices(A) can give, over the outcomes of argsort
RefinedIndexSets(A, P, ref_i, n) ==
    {getRefinedIndices(A, P, ref_i, n, s) : s \in ArgSorts(Deg(A, n), n)}

\* a set of indices as the ascending list I.sort() leaves
RECURSIVE SortedSeq(_)
SortedSeq(S) ==
    IF S = {} THEN <<>>
    ELSE LET m == CHOOSE x \in S : \A y \in S : x <= y
         IN  <<m>> \o SortedSeq(S \ {m})

\* I = list(set(L) - (set(L) - set(U)))
Common(l, u) == l \ (l \ u)

RInit ==
    /\ \E n \in 1 .. MaxConfs :
       \E m \in RMSDMatrices(n), lo \in LowerValues, up \in UpperValues,
          r \in Confs(n), p \in SUBSET Confs(n) :
            rin = [n |-> n, RMSDs |-> m, lower |-> lo, upper |-> up,
                   ref_i |-> r, protected |-> p]
    /\ rpc = "start"
    /\ L = {} /\ U = {} /\ I = <<>>
    /\ scan = <<>> /\ res = <<>>

RefineEnsemble ==
    /\ rpc = "start"
    /\ LET n == rin.n
           P == ResolveP(rin.ref_i, rin.protected)
           A == BelowLower(rin.RMSDs, Val(rin.lower), n)
           B == AboveUpper(rin.RMSDs, Val(rin.upper), n)
       IN  /\ L' \in IF IsNone(rin.lower) THEN {Confs(n)}
                     ELSE RefinedIndexSets(A, P, rin.ref_i, n)
           /\ U' \in IF IsNone(rin.upper) THEN {Confs(n)}
                     ELSE RefinedIndexSets(B, P, rin.ref_i, n)
           /\ I' = SortedSeq(Common(L', U'))
    /\ rpc' = "done"
    /\ UNCHANGED <<rin, scan, res, tvars, bvars, avars>>

InitRefine == RInit /\ TIdle /\ BIdle /\ AIdle
NextRefine == RefineEnsemble
SpecRefine == InitRefine /\ [][NextRefine]_vars

\* the pair (i, j) breaks a threshold that is present
Violates(i, j) ==
    \/ ~IsNone(rin.lower) /\ rin.RMSDs[i][j] < Val(rin.lower)
    \/ ~IsNone(rin.upper) /\ rin.RMSDs[i][j] > Val(rin.upper)

Survivors == Range(I)
Removed == Confs(rin.n) \ Survivors
ProtectedAll == ResolveP(rin.ref_i, rin.protected)

\* C1: any two distinct survivors of the returned ensemble are within the
\* thresholds that are present, unless both are protected (reference included)
C1_SurvivorsWithinBounds ==
    rpc = "done" =>
        \A i, j \in Survivors :
            (i # j /\ ~(i \in ProtectedAll /\ j \in ProtectedAll))
                => ~Violates(i, j)

C1_Witness ==
    /\ rpc = "done"
    /\ Cardinality(Survivors) >= 2
    /\ \E i \in Survivors, j \in Removed : Violates(i, j)
    /\ \E i, j \in Survivors :
          i # j /\ i \in ProtectedAll /\ j \in ProtectedAll /\ Violates(i, j)

\* C2: the reference and every protected index are in the returned ensemble,
\* having survived both the lower pass and the upper pass
C2_ProtectedSurvive ==
    rpc = "done" =>
        \A p \in ProtectedAll : p \in L /\ p \in U /\ p \in Survivors

C2_Witness ==
    /\ rpc = "done"
    /\ \E p \in rin.protected, q \in Confs(rin.n) :
          /\ p # rin.ref_i /\ q # p
          /\ Violates(p, q) /\ Violates(p, rin.ref_i)
          /\ p \in Survivors
    /\ Removed # {}

\* no removed conformation can be added back without a violating pair
Maximal ==
    \A k \in Removed : \E s \in Survivors : Violates(k, s)

\* C3 as stated: the returned survivors are a maximal consistent subset
C3_MaximalAlways ==
    rpc = "done" => Maximal

\* C3 amended: with at most one threshold present and nothing protected but
\* the reference, no removed conformation could be added back to the survivors
\* without forming a violating pair with one of them
C3_MaximalOnePassRefOnly ==
    (/\ rpc = "done"
     /\ IsNone(rin.lower) \/ IsNone(rin.upper)
     /\ ProtectedAll = {rin.ref_i}) => Maximal

C3_Witness ==
    /\ rpc = "done"
    /\ IsNone(rin.lower) # IsNone(rin.upper)
    /\ ProtectedAll = {rin.ref_i}
    /\ Cardinality(Removed) >= 1
    /\ Cardinality(Survivors) >= 2

(***************************************************************************)
(* One pass of getRefinedIndices, one iteration of the inner loop at a     *)
(* time.                                                                   *)
(***************************************************************************)
SInit ==
    /\ rin = [n |-> 0] /\ rpc = "idle" /\ L = {} /\ U = {} /\ I = <<>>
    /\ res = <<>>
    /\ \E n \in 1 .. MaxConfs :
       \E m \in RMSDMatrices(n), lower \in BOOLEAN,
          r \in Confs(n), p \in SUBSET Confs(n) :
          LET A == IF lower THEN BelowLower(m, 1, n) ELSE AboveUpper(m, 1, n)
          IN  \E s \in ArgSorts(Deg(A, n), n) :
                scan = [n |-> n, A |-> A, P |-> ResolveP(r, p), ref_i |-> r,
                        sorted_indices |-> RefFirst(s, r, n),
                        a |-> 0, b |-> 0,
                        isdel |-> [i \in Confs(n) |-> FALSE],
                        last |-> None]

\* one iteration of 'for b in range(n_confs)'; after the last b the next a
ScanStep ==
    /\ scan # <<>> /\ scan.a < scan.n
    /\ LET i == scan.sorted_indices[scan.a]
           j == scan.sorted_indices[scan.b]
           after == IF scan.a >= scan.b THEN scan.isdel
                    ELSE ScanPair(scan.A, scan.P, scan.isdel, i, j)
       IN  scan' = [scan EXCEPT
                       !.isdel = after,
                       !.last = IF scan.a >= scan.b THEN scan.last
                                ELSE Some([i |-> i, j |-> j,
                                           before |-> scan.isdel]),
                       !.a = IF scan.b + 1 = scan.n THEN scan.a + 1 ELSE scan.a,
                       !.b = IF scan.b + 1 = scan.n THEN 0 ELSE scan.b + 1]
    /\ UNCHANGED <<rin, rpc, L, U, I, res, tvars, bvars, avars>>

InitScan == SInit /\ TIdle /\ BIdle /\ AIdle
NextScan == ScanStep
SpecScan == InitScan /\ [][NextScan]_vars

\* the loop body has just run on a pair that violates the relation, neither
\* side marked before, both sides protected
BothProtectedCase ==
    /\ scan # <<>> /\ ~IsNone(scan.last)
    /\ LET l == Val(scan.last)
       IN  /\ scan.A[l.i][l.j]
           /\ ~l.before[l.i] /\ ~l.before[l.j]
           /\ l.i \in scan.P /\ l.j \in scan.P

\* C12 as stated: on such a pair the pass marks the earlier-ordered side, or
\* the other side when the earlier-ordered one is the reference
C12_BothProtectedMarksOne ==
    BothProtectedCase =>
        LET l == Val(scan.last)
        IN  scan.isdel = IF l.i # scan.ref_i
                         THEN [l.before EXCEPT ![l.i] = TRUE]
                         ELSE [l.before EXCEPT ![l.j] = TRUE]

\* C12 amended: on such a pair the pass marks neither side: both stay
\* unmarked and no other mark changes
C12_BothProtectedMarksNone ==
    BothProtectedCase =>
        LET l == Val(scan.last)
        IN  /\ scan.isdel = l.before
            /\ ~scan.isdel[l.i] /\ ~scan.isdel[l.j]

C12_Witness ==
    /\ BothProtectedCase
    /\ Val(scan.last).i # scan.ref_i
    /\ Val(scan.last).j # scan.ref_i

(***************************************************************************)
(* refineEnsemble: protected and ref resolved to indices (lines 545-574).  *)
(* An entry of protected, and ref, is [kind, idx, label]: an integer index *)
(* ("int", idx), a label ("str", label), or a value that is neither        *)
(* ("other", idx).  'ref_i in P' compares by ==, so an "other" value is    *)
(* known by the integer it equals: idx = k for one equal to the index k    *)
(* (1.0 == 1), idx = -1 for one equal to no integer (None, 1.5); it stands *)
(* in ref_i and P as that idx.                                             *)
(* The local variable i is None while it is unbound.                       *)
(***************************************************************************)
MaxLabels == 2
MaxProtected == 2

LabelSet == {"a", "b", "c"}

IntEntry(k) == [kind |-> "int", idx |-> k, label |-> ""]
StrEntry(l) == [kind |-> "str", idx |-> -1, label |-> l]
OtherEntry(k) == [kind |-> "other", idx |-> k, label |-> ""]

\* p in labels
InLabels(labels, p) == \E k \in 1 .. Len(labels) : labels[k] = p

\* labels.index(p): the 0-based position of the first label equal to p
LabelIndex(labels, p) ==
    (CHOOSE k \in 1 .. Len(labels) :
        labels[k] = p /\ \A j \in 1 .. (k - 1) : labels[j] # p) - 1

\* lines 550-556: the value of i after the if / else on one entry p
ResolveEntry(labels, p, i) ==
    IF p.kind = "int" THEN Some(p.idx)
    ELSE IF InLabels(labels, p.label) THEN Some(LabelIndex(labels, p.label))
    ELSE i

\* lines 553-556: the entry logs the warning
EntryWarns(labels, p) == p.kind # "int" /\ ~InLabels(labels, p.label)

VInit ==
    /\ rin = [n |-> 0] /\ rpc = "idle" /\ L = {} /\ U = {} /\ I = <<>>
    /\ scan = <<>>
    /\ \E n \in 1 .. MaxLabels, np \in 0 .. MaxProtected :
       LET entries == {IntEntry(k) : k \in Confs(n)}
                         \cup {StrEntry(l) : l \in LabelSet}
       IN  \E labels \in [1 .. n -> LabelSet],
              protected \in [1 .. np -> entries],
              ref \in entries \cup {OtherEntry(k) : k \in Confs(n) \cup {-1}} :
                res = [labels |-> labels, protected |-> protected, ref |-> ref,
                       pc |-> "protected", k |-> 0, i |-> None,
                       P0 |-> <<>>, P |-> <<>>, ref_i |-> None,
                       warnings |-> <<>>, err |-> ""]

\* one iteration of 'for p in protected' (lines 549-557)
ResolveProtected ==
    /\ res # <<>> /\ res.pc = "protected" /\ res.k < Len(res.protected)
    /\ LET p == res.protected[res.k + 1]
           i == ResolveEntry(res.labels, p, res.i)
           warnings == IF EntryWarns(res.labels, p)
                       THEN Append(res.warnings, "protected") ELSE res.warnings
       IN  IF IsNone(i)
           THEN res' = [res EXCEPT !.warnings = warnings, !.pc = "raised",
                                   !.err = "UnboundLocalError"]
           ELSE res' = [res EXCEPT !.warnings = warnings, !.i = i,
                                   !.P0 = Append(@, Val(i)),
                                   !.k = @ + 1]
    /\ UNCHANGED <<rin, rpc, L, U, I, scan, tvars, bvars, avars>>

\* lines 565-574: ref_i and the reference made the first of P
ResolveRef ==
    /\ res # <<>> /\ res.pc = "protected" /\ res.k = Len(res.protected)
    /\ IF res.ref.kind = "str" /\ ~InLabels(res.labels, res.ref.label)
       THEN res' = [res EXCEPT !.pc = "raised", !.err = "ValueError"]
       ELSE LET ref_i == IF res.ref.kind = "str"
                         THEN LabelIndex(res.labels, res.ref.label)
                         ELSE res.ref.idx
            IN  res' = [res EXCEPT
                           !.pc = "resolved",
                           !.ref_i = Some(ref_i),
                           !.warnings = IF res.ref.kind = "other"
                                        THEN Append(@, "ref") ELSE @,
                           !.P = IF ref_i \in Range(res.P0) THEN res.P0
                                 ELSE <<ref_i>> \o res.P0]
    /\ UNCHANGED <<rin, rpc, L, U, I, scan, tvars, bvars, avars>>

InitResolve == VInit /\ TIdle /\ BIdle /\ AIdle
NextResolve == ResolveProtected \/ ResolveRef
SpecResolve == InitResolve /\ [][NextResolve]_vars

\* the k-th protected entry is a label no conformation carries
MissingProtected(k) ==
    /\ res.protected[k].kind = "str"
    /\ ~InLabels(res.labels, res.protected[k].label)

\* ref is a label no conformation carries
MissingRef == res.ref.kind = "str" /\ ~InLabels(res.labels, res.ref.label)

\* the resolution has ended and a protected label or the reference label
\* matched no conformation
LookupFailed ==
    /\ res # <<>> /\ res.pc \in {"resolved", "raised"}
    /\ MissingRef \/ \E k \in 1 .. Len(res.protected) : MissingProtected(k)

\* C13: on a protected label or a reference label that matches no
\* conformation refineEnsemble logs a warning and goes on without raising
C13_LookupFailureProceeds ==
    LookupFailed => (res.pc = "resolved" /\ res.warnings # <<>>)

\* what the code does instead: a missing protected label logs a warning and
\* takes the index of the entry before it; as the first entry it raises
\* UnboundLocalError; a missing reference label raises ValueError and logs
\* nothing
LookupFailureOutcome ==
    LookupFailed =>
        IF Len(res.protected) >= 1 /\ MissingProtected(1)
        THEN /\ res.pc = "raised" /\ res.err = "UnboundLocalError"
             /\ res.warnings = <<"protected">>
        ELSE /\ Len(res.P0) = Len(res.protected)
             /\ \A k \in 2 .. Len(res.protected) :
                   MissingProtected(k) => res.P0[k] = res.P0[k - 1]
             /\ Cardinality({w \in 1 .. Len(res.warnings) :
                                res.warnings[w] = "protected"})
                   = Cardinality({k \in 1 .. Len(res.protected) :
                                     MissingProtected(k)})
             /\ MissingRef => "ref" \notin Range(res.warnings)
             /\ IF MissingRef
                THEN res.pc = "raised" /\ res.err = "ValueError"
                ELSE res.pc = "resolved"

(***************************************************************************)
(* PDBEnsemble, calcOccupancies, trimPDBEnsemble                           *)
(*                                                                         *)
(* An ensemble is a record: atoms (None or the list of atom identities of  *)
(* the underlying atom set), n_atoms, indices (None or the active          *)
(* selection as positions into the underlying atom set), coords (the       *)
(* reference coordinates, one tag per atom), confs and weights (one row    *)
(* per conformation, one column per underlying atom) and labels (one per   *)
(* conformation).  The coordinate of                                       *)
(* atom a is the tag a in the reference and 10*c + a in conformation c.    *)
(* An occupancy threshold is the numerator k of k / OccDen.                *)
(***************************************************************************)
NAtoms == 3
MaxTrimConfs == 2
OccDen == 2

Iota(n) == [k \in 1 .. n |-> k]

\* numpy indexing of a list by a list of positions: s[idx]
Take(s, idx) == [k \in 1 .. Len(idx) |-> s[idx[k]]]

\* numpy indexing of the columns of a matrix: m[:, idx]
TakeCols(m, idx) == [c \in 1 .. Len(m) |-> Take(m[c], idx)]

\* np.where(torf)[0], and [n for n, t in enumerate(torf) if t]
Where(torf) == SortedSeq({k \in DOMAIN torf : torf[k]})

Return(v) == [raised |-> "", value |-> v]
Raise(e) == [raised |-> e, value |-> <<>>]

\* PDBEnsemble: the active positions (all of them when _indices is None)
ActiveIdx(e) == IF IsNone(e.indices) THEN Iota(e.n_atoms) ELSE Val(e.indices)

numConfs(e) == Len(e.confs)
\* PDBEnsemble.numAtoms(): the class is outside the source and line 193 is its
\* only use, so whether it counts the selected atoms or all the atoms is not
\* decided; both values are followed
numAtomsValues(e) == {Len(ActiveIdx(e)), e.n_atoms}

\* what the library outside the source does in a call: the value numAtoms()
\* reports, and whether an empty list of columns (atoms[[]], setAtoms of an
\* empty selection, setCoords and addCoordset of arrays with no column) is
\* accepted (TRUE) or raises (FALSE)
LibraryChoices(e) == [numAtoms : numAtomsValues(e), emptyIndex : BOOLEAN]
getCoords(e) == Take(e.coords, ActiveIdx(e))
getCoordsets(e) == TakeCols(e.confs, ActiveIdx(e))
getWeights(e) ==
    IF IsNone(e.weights) THEN None
    ELSE Some(TakeCols(Val(e.weights), ActiveIdx(e)))
getAtoms(e, selected) ==
    IF IsNone(e.atoms) THEN None
    ELSE IF selected THEN Some(Take(Val(e.atoms), ActiveIdx(e)))
    ELSE e.atoms

\* PDBEnsemble(title) followed by setAtoms(atoms), setAtoms(atoms[indices]),
\* setCoords and addCoordset: a selection of all the atoms leaves _indices None.
\* HardTrim and SoftTrim build an ensemble with no column or no selected atom
\* only when the library accepts an empty list of columns
MakeEnsemble(atoms, n, indices, coords, confs, weights, labels) ==
    [atoms |-> atoms, n_atoms |-> n, labels |-> labels,
     indices |-> IF IsNone(indices) \/ Len(Val(indices)) = n
                 THEN None ELSE indices,
     coords |-> coords, confs |-> confs, weights |-> weights]

RECURSIVE SumWeights(_, _, _)
SumWeights(w, k, c) == IF c = 0 THEN 0 ELSE w[c][k] + SumWeights(w, k, c - 1)

OccupancyOfSum(w, k, m, normed) ==
    [num |-> SumWeights(w, k, m), den |-> IF normed THEN m ELSE 1]

\* weights.astype(bool).sum(0), then / len(pdb_ensemble) when normed
OccupancyOf(w, k, m, normed) ==
    [num |-> Cardinality({c \in 1 .. m : w[c][k] # 0}),
     den |-> IF normed THEN m ELSE 1]

calcOccupancies(e, normed) ==
    IF numConfs(e) = 0 THEN Raise("ValueError")
    ELSE LET weights == getWeights(e)
         IN  IF IsNone(weights) THEN Raise("ValueError")
             ELSE Return([k \in 1 .. Len(ActiveIdx(e)) |->
                      OccupancyOf(Val(weights), k, numConfs(e), normed)])

IsHardNoAtomsTest(e, occupancy, hardkw) == hardkw \/ IsNone(occupancy)

\* hard = kwargs.pop('hard', False) or pdb_ensemble._atoms is None
\*        or occupancy is None
IsHard(e, occupancy, hardkw) ==
    hardkw \/ IsNone(e.atoms) \/ IsNone(occupancy)

TorfStrict(occupancies, k) ==
    [a \in DOMAIN occupancies |->
        occupancies[a].num * OccDen > k * occupancies[a].den]

\* torf = occupancies >= occupancy, with occupancy = k / OccDen
Torf(occupancies, k) ==
    [a \in DOMAIN occupancies |->
        occupancies[a].num * OccDen >= k * occupancies[a].den]

\* the hard branch
HardTrim(e, atoms, torf, lib) ==
    LET idx == Where(torf)
        weights == getWeights(e)
    IN  IF idx = <<>> /\ ~lib.emptyIndex THEN Raise("Exception")
        ELSE IF IsNone(weights) THEN Raise("TypeError")
        ELSE Return(MakeEnsemble(
                 IF IsNone(atoms) THEN None ELSE Some(Take(Val(atoms), idx)),
                 Len(idx), None,
                 Take(getCoords(e), idx),
                 TakeCols(getCoordsets(e), idx),
                 Some(TakeCols(Val(weights), idx)),
                 e.labels))

SoftIndicesUntranslated(e, torf) == Where(torf)

\* indices = np.where(torf)[0]; if selids is not None: indices = selids[indices]
SoftIndices(e, torf) ==
    IF ~IsNone(e.indices) THEN Take(Val(e.indices), Where(torf))
    ELSE Where(torf)

\* the soft branch
SoftTrim(e, atoms, torf, lib) ==
    IF IsNone(atoms) THEN Raise("TypeError")
    ELSE IF SoftIndices(e, torf) = <<>> /\ ~lib.emptyIndex
    THEN Raise("Exception")
    ELSE Return(MakeEnsemble(atoms, Len(Val(atoms)), Some(SoftIndices(e, torf)),
                             e.coords, e.confs, e.weights, e.labels))

trimPDBEnsemble(e, occupancy, hardkw, lib) ==
    LET hard == IsHard(e, occupancy, hardkw)
        atoms == getAtoms(e, hard)
    IN  IF numConfs(e) = 0 \/ lib.numAtoms = 0 THEN Raise("ValueError")
        ELSE IF ~IsNone(occupancy)
                /\ ~(0 < Val(occupancy) /\ Val(occupancy) <= OccDen)
        THEN Raise("AssertionError")
        ELSE LET occ == IF IsNone(occupancy) THEN Return(<<>>)
                        ELSE calcOccupancies(e, TRUE)
             IN  IF occ.raised # "" THEN occ
                 ELSE LET torf == IF IsNone(occupancy)
                                  THEN [k \in 1 .. Len(getCoords(e)) |-> TRUE]
                                  ELSE Torf(occ.value, Val(occupancy))
                      IN  IF hard THEN HardTrim(e, atoms, torf, lib)
                          ELSE SoftTrim(e, atoms, torf, lib)

\* a weight row read as a binary number
RECURSIVE RowCode(_, _)
RowCode(row, n) ==
    IF n = 0 THEN 0 ELSE (IF row[n] # 0 THEN 1 ELSE 0) + 2 * RowCode(row, n - 1)

\* the weight rows of m conformations over n atoms, entries from vals.
\* calcOccupancies and trimPDBEnsemble treat every conformation alike (a column
\* sum and a column slice), so the rows are drawn up to the order of the
\* conformations: by ascending RowCode
WeightRows(m, n, vals) ==
    {w \in [1 .. m -> [1 .. n -> vals]] :
        \A c \in 1 .. (m - 1) : RowCode(w[c], n) <= RowCode(w[c + 1], n)}

\* an ensemble of m conformations over atoms 1..n, nothing selected
FullEnsemble(n, m, hasAtoms, weights) ==
    [atoms |-> IF hasAtoms THEN Some(Iota(n)) ELSE None,
     n_atoms |-> n, indices |-> None, labels |-> Iota(m),
     coords |-> Iota(n),
     confs |-> [c \in 1 .. m |-> [a \in 1 .. n |-> 10 * c + a]],
     weights |-> weights]

\* the underlying positions whose occupancy, counted over all conformations of
\* the stored weights, is at least k / OccDen
KeepSet(e, k) ==
    {p \in 1 .. e.n_atoms :
        Cardinality({c \in 1 .. Len(e.confs) : Val(e.weights)[c][p] # 0}) * OccDen
            >= k * Len(e.confs)}

OccupancyArgs == {None} \cup {Some(k) : k \in 1 .. OccDen}

TInit ==
    /\ \E m \in 0 .. MaxTrimConfs, hasAtoms \in BOOLEAN :
       \E w \in WeightRows(m, NAtoms, {0, 1}) :
            ens = FullEnsemble(NAtoms, m, hasAtoms, Some(w))
    /\ tsrc = <<>> /\ top = [op |-> "none"] /\ tres = <<>>
    /\ kept = 1 .. NAtoms

\* a call trimPDBEnsemble(ens, occupancy, hard=hardkw); the caller goes on
\* with the returned ensemble
TrimPDBEnsemble ==
    \E occupancy \in OccupancyArgs, hardkw \in BOOLEAN,
       lib \in LibraryChoices(ens) :
        LET r == trimPDBEnsemble(ens, occupancy, hardkw, lib)
        IN  /\ tsrc' = ens
            /\ top' = [op |-> "trim", occupancy |-> occupancy, hard |-> hardkw]
            /\ tres' = r
            /\ ens' = IF r.raised = "" THEN r.value ELSE ens
            /\ kept' = IF r.raised # "" THEN kept
                       ELSE IF IsHard(ens, occupancy, hardkw)
                       THEN 1 .. r.value.n_atoms
                       ELSE kept \cap KeepSet(ens, Val(occupancy))
            /\ UNCHANGED <<rvars, bvars, avars>>

InitTrim == RIdle /\ TInit /\ BIdle /\ AIdle
NextTrim == TrimPDBEnsemble
SpecTrim == InitTrim /\ [][NextTrim]_vars

(***************************************************************************)
(* calcOccupancies on its own: weights 0, 1 and 2, with or without weights *)
(***************************************************************************)
MaxOccAtoms == 2
MaxOccConfs == 2

OInit ==
    /\ \E n \in 1 .. MaxOccAtoms, m \in 0 .. MaxOccConfs :
          \/ \E w \in [1 .. m -> [1 .. n -> {0, 1, 2}]] :
                ens = FullEnsemble(n, m, TRUE, Some(w))
          \/ ens = FullEnsemble(n, m, TRUE, None)
    /\ tsrc = <<>> /\ top = [op |-> "none"] /\ tres = <<>>
    /\ kept = {}

\* a call calcOccupancies(ens, normed=normed)
CalcOccupancies ==
    \E normed \in BOOLEAN :
        /\ tsrc' = ens
        /\ top' = [op |-> "occ", normed |-> normed]
        /\ tres' = calcOccupancies(ens, normed)
        /\ UNCHANGED <<ens, kept, rvars, bvars, avars>>

InitOcc == RIdle /\ OInit /\ BIdle /\ AIdle
NextOcc == CalcOccupancies
SpecOcc == InitOcc /\ [][NextOcc]_vars

(***************************************************************************)
(* buildPDBEnsemble, with the default ref, subset, degeneracy and labels.  *)
(* atomics[i] is None or Some(i), the structure titled i.  The mapper      *)
(* (alignChains) answers each structure with 0..MaxMaps AtomMaps, each     *)
(* with its 'mapped' flags over the reference atoms.                       *)
(***************************************************************************)
MaxInputs == 3
MaxMaps == 2

\* the 'mapped' flags an AtomMap may carry: every reference atom mapped, or
\* all but the first
MappedFlags == {[a \in 1 .. NAtoms |-> 1],
                [a \in 1 .. NAtoms |-> IF a = 1 THEN 0 ELSE 1]}

\* labels.append(None) / labels.append(atoms.getTitle())
DefaultLabels(atomics) ==
    [i \in 1 .. Len(atomics) |-> atomics[i]]

\* the label of a conformation: pystr(labels[i]), with '_' and the chain
\* identifiers of the AtomMap appended when the structure gave several maps
ConfLabel(label, nmaps_i, j) ==
    [title |-> Val(label), chids |-> IF nmaps_i > 1 THEN j ELSE 0]

\* ensemble.addCoordset(atommap, weights=atommap.getFlags('mapped'),
\*                      label=lbl, degeneracy=True): one more conformation
addCoordset(e, flags, lbl) ==
    [e EXCEPT !.confs = Append(@, [a \in 1 .. e.n_atoms |->
                                      10 * (Len(e.confs) + 1) + a]),
              !.weights = Some(Append(Val(@), flags)),
              !.labels = Append(@, lbl)]

\* for atommap in atommaps: ... ensemble.addCoordset(...)
RECURSIVE AddMaps(_, _, _, _)
AddMaps(e, label, maps, j) ==
    IF j > Len(maps) THEN e
    ELSE AddMaps(addCoordset(e, maps[j], ConfLabel(label, Len(maps), j)),
                 label, maps, j + 1)

BuildTrimHard(e, occupancy, lib) == trimPDBEnsemble(e, occupancy, TRUE, lib)

\* ensemble = trimPDBEnsemble(ensemble, occupancy=occupancy)
BuildTrim(e, occupancy, lib) == trimPDBEnsemble(e, occupancy, FALSE, lib)

\* ensemble.superpose() / ensemble.iterpose(): needs conformations
Superposable(e) == numConfs(e) > 0

BInit ==
    /\ \E n \in 1 .. MaxInputs :
       \E atomics \in [1 .. n -> {None} \cup {Some(i) : i \in 1 .. n}],
          occupancy \in OccupancyArgs :
          /\ \A i \in 1 .. n : atomics[i] \in {None, Some(i)}
          /\ bin = [atomics |-> atomics, occupancy |-> occupancy]
    /\ bpc = "start" /\ bi = 0 /\ bens = <<>> /\ bpre = <<>>
    /\ unmapped = <<>> /\ nmaps = <<>> /\ berr = ""

\* lines 435-471: the length check, the reference, the new ensemble
BuildStart ==
    /\ bpc = "start"
    /\ IF Len(bin.atomics) = 1
       THEN bpc' = "raised" /\ berr' = "ValueError" /\ UNCHANGED bens
       ELSE IF IsNone(bin.atomics[1])
       THEN bpc' = "raised" /\ berr' = "AttributeError" /\ UNCHANGED bens
       ELSE /\ bpc' = "loop" /\ UNCHANGED berr
            /\ bens' = FullEnsemble(NAtoms, 0, TRUE, Some(<<>>))
    /\ UNCHANGED <<bin, bi, bpre, unmapped, nmaps, rvars, tvars, avars>>

\* one iteration of the loop over atomics
BuildStep ==
    /\ bpc = "loop" /\ bi < Len(bin.atomics)
    /\ LET atoms == bin.atomics[bi + 1]
           label == DefaultLabels(bin.atomics)[bi + 1]
       IN  IF IsNone(atoms)
           THEN /\ unmapped' = Append(unmapped, label)
                /\ nmaps' = Append(nmaps, None)
                /\ UNCHANGED bens
           ELSE \E k \in 0 .. MaxMaps : \E atommaps \in [1 .. k -> MappedFlags] :
                   /\ nmaps' = Append(nmaps, Some(k))
                   /\ IF k = 0
                      THEN unmapped' = Append(unmapped, label) /\ UNCHANGED bens
                      ELSE /\ bens' = AddMaps(bens, label, atommaps, 1)
                           /\ UNCHANGED unmapped
    /\ bi' = bi + 1
    /\ bpc' = IF bi + 1 = Len(bin.atomics) THEN "trim" ELSE "loop"
    /\ UNCHANGED <<bin, bpre, berr, rvars, tvars, avars>>

\* lines 509-510: if occupancy is not None, the trim
BuildTrimStep ==
    /\ bpc = "trim"
    /\ bpre' = bens
    /\ IF IsNone(bin.occupancy)
       THEN bpc' = "superpose" /\ UNCHANGED <<bens, berr>>
       ELSE \E lib \in LibraryChoices(bens) :
            LET r == BuildTrim(bens, bin.occupancy, lib)
            IN  IF r.raised # ""
                THEN bpc' = "raised" /\ berr' = r.raised /\ UNCHANGED bens
                ELSE bpc' = "superpose" /\ bens' = r.value /\ UNCHANGED berr
    /\ UNCHANGED <<bin, bi, unmapped, nmaps, rvars, tvars, avars>>

\* lines 512-522: superpose and return
BuildSuperpose ==
    /\ bpc = "superpose"
    /\ IF Superposable(bens)
       THEN bpc' = "done" /\ UNCHANGED berr
       ELSE bpc' = "raised" /\ berr' = "ValueError"
    /\ UNCHANGED <<bin, bi, bens, bpre, unmapped, nmaps, rvars, tvars, avars>>

InitBuild == RIdle /\ TIdle /\ BInit /\ AIdle
NextBuild == BuildStart \/ BuildStep \/ BuildTrimStep \/ BuildSuperpose
SpecBuild == InitBuild /\ [][NextBuild]_vars

(***************************************************************************)
(* alignPDBEnsemble.  A label is a sequence of characters.  A conformation *)
(* is [label, trans], trans telling whether it carries a transformation.   *)
(* An AtomGroup is [ncs, acsi, applied]: its number of coordinate sets,    *)
(* its active coordinate set index (0-based) and, per coordinate set, the  *)
(* positions in the ensemble of the conformations whose transformation     *)
(* was applied to it, in order.  An output path stands as Some(pdb).       *)
(***************************************************************************)
MaxAlignConfs == 3
MaxCsets == 2

PdbA == <<"1", "a", "b", "c">>
PdbB == <<"2", "x", "y", "m">>
PdbIds == {PdbA, PdbB}

AlignLabels ==
    {PdbA, PdbA \o <<"_", "m", "0">>, PdbA \o <<"_", "m", "1">>,
     PdbA \o <<"_", "c", "a", "_", "m", "2">>, PdbA \o <<"_", "m", "9">>,
     PdbA \o <<"_", "m", "x">>, PdbB, PdbB \o <<"_", "m", "1">>}

AlignConfs ==
    {[label |-> l, trans |-> TRUE] : l \in AlignLabels}
        \cup {[label |-> PdbA, trans |-> FALSE]}

DigitVal ==
    [d \in {"0", "1", "2", "3", "4", "5", "6", "7", "8", "9"} |->
        CASE d = "0" -> 0 [] d = "1" -> 1 [] d = "2" -> 2 [] d = "3" -> 3
          [] d = "4" -> 4 [] d = "5" -> 5 [] d = "6" -> 6 [] d = "7" -> 7
          [] d = "8" -> 8 [] d = "9" -> 9]

\* label[:4]
Prefix4(label) == SubSeq(label, 1, IF Len(label) < 4 THEN Len(label) ELSE 4)

\* label.rfind(ch): the 0-based index of the last ch, or -1
RFind(label, ch) ==
    LET at == {k \in 1 .. Len(label) : label[k] = ch}
    IN  IF at = {} THEN -1
        ELSE (CHOOSE k \in at : \A j \in at : j <= k) - 1

\* label[start:] for a 0-based start
SliceFrom(label, start) == SubSeq(label, start + 1, Len(label))

\* str.isdigit()
IsDigit(str) ==
    Len(str) > 0 /\ \A k \in 1 .. Len(str) : str[k] \in DOMAIN DigitVal

\* int(str) for a string of digits
RECURSIVE IntOf(_)
IntOf(str) ==
    IF Len(str) = 0 THEN 0
    ELSE 10 * IntOf(SubSeq(str, 1, Len(str) - 1)) + DigitVal[str[Len(str)]]

\* lines 345-352: acsi from the label, None when the label names no model
AcsiOf(label) ==
    LET model == RFind(label, "m")
    IN  IF model > 3 /\ IsDigit(SliceFrom(label, model + 1))
        THEN Some(IntOf(SliceFrom(label, model + 1)) - 1)
        ELSE None

\* parsePDB(filename): all coordinate sets untouched, the first one active
ParsePDB(pdb) ==
    [ncs |-> ancs[pdb], acsi |-> 0, applied |-> [k \in 1 .. ancs[pdb] |-> <<>>]]

\* pdbdict.get(pdb): the position of pdb in the dictionary, 0 when missing
DictPos(dict, pdb) ==
    IF \E k \in 1 .. Len(dict) : dict[k].pdb = pdb
    THEN CHOOSE k \in 1 .. Len(dict) : dict[k].pdb = pdb
    ELSE 0

\* pdbdict[pdb] = ag: a new key goes last, an old key keeps its place
DictSet(dict, pdb, ag) ==
    IF DictPos(dict, pdb) = 0 THEN Append(dict, [pdb |-> pdb, ag |-> ag])
    ELSE [dict EXCEPT ![DictPos(dict, pdb)].ag = ag]

\* ag.setACSIndex(index): a negative index counts from the end
SetACSIndex(ag, index) ==
    [ag EXCEPT !.acsi = IF index < 0 THEN index + ag.ncs ELSE index]

\* trans.apply(ag): transforms the active coordinate set
Apply(ag, conf) ==
    [ag EXCEPT !.applied[ag.acsi + 1] = Append(@, conf)]

\* if acsi >= ag.numCoordsets()
OutOfRange(acsi, ag) == acsi >= ag.ncs

IsMultiModelAlways(ag) == ag.ncs >= 1

\* if ag.numCoordsets() > 1: the structure is kept for the final write
IsMultiModel(ag) == ag.ncs > 1

AInit ==
    /\ \E f \in [PdbIds -> BOOLEAN], n \in [PdbIds -> 1 .. MaxCsets] :
          /\ \A p \in PdbIds : ~f[p] => n[p] = 1
          /\ afiles = f /\ ancs = n
    /\ apc = "loop" /\ aconfs = <<>> /\ output = <<>>
    /\ pdbdict = <<>> /\ writes = <<>> /\ aret = <<>>

\* one iteration of the loop over the conformations (lines 328-372)
AlignConf ==
    /\ apc = "loop" /\ Len(aconfs) < MaxAlignConfs
    /\ \E conf \in AlignConfs :
        LET pos == Len(aconfs) + 1
            label == conf.label
            pdb == Prefix4(label)
            cached == DictPos(pdbdict, pdb)
            found == cached # 0 \/ afiles[pdb]
            acsi == AcsiOf(label)
            ag0 == IF cached # 0 THEN pdbdict[cached].ag ELSE ParsePDB(pdb)
            ag1 == IF IsNone(acsi) THEN ag0 ELSE SetACSIndex(ag0, Val(acsi))
            ag == Apply(ag1, pos)
        IN  /\ aconfs' = Append(aconfs, conf)
            /\ IF ~conf.trans
               THEN apc' = "raised" /\ UNCHANGED <<output, pdbdict, writes>>
               ELSE IF ~found
               THEN /\ output' = Append(output, None)
                    /\ UNCHANGED <<apc, pdbdict, writes>>
               ELSE IF ~IsNone(acsi) /\ OutOfRange(Val(acsi), ag0)
               THEN /\ output' = Append(output, None)
                    /\ UNCHANGED <<apc, pdbdict, writes>>
               ELSE /\ output' = Append(output, Some(pdb))
                    /\ IF IsMultiModel(ag)
                       THEN pdbdict' = DictSet(pdbdict, pdb, ag)
                            /\ UNCHANGED writes
                       ELSE writes' = Append(writes,
                                [pdb |-> pdb, ag |-> ag, at |-> "loop"])
                            /\ UNCHANGED pdbdict
                    /\ UNCHANGED apc
    /\ UNCHANGED <<afiles, ancs, aret, rvars, tvars, bvars>>

\* after the last conformation (lines 374-379): the cached structures are
\* written in the order of the dictionary, and the output is returned
AlignEnd ==
    /\ apc = "loop"
    /\ writes' = writes \o [k \in 1 .. Len(pdbdict) |->
                     [pdb |-> pdbdict[k].pdb, ag |-> pdbdict[k].ag, at |-> "end"]]
    /\ aret' = IF Len(output) = 1 THEN [bare |-> TRUE, value |-> <<output[1]>>]
               ELSE [bare |-> FALSE, value |-> output]
    /\ apc' = "done"
    /\ UNCHANGED <<afiles, ancs, aconfs, output, pdbdict, rvars, tvars, bvars>>

InitAlign == RIdle /\ TIdle /\ BIdle /\ AInit
NextAlign == AlignConf \/ AlignEnd
SpecAlign == InitAlign /\ [][NextAlign]_vars

(***************************************************************************)
(* Claims about trimPDBEnsemble and calcOccupancies                        *)
(***************************************************************************)
\* the number of atoms in the active selection of e
numSelected(e) == Len(ActiveIdx(e))

\* the active positions of e that are in its keep-set for k / OccDen, ascending
KeepIdx(e, k) ==
    SortedSeq({p \in Range(ActiveIdx(e)) : p \in KeepSet(e, k)})

\* the last call was a trim with an occupancy, on an ensemble with conformations
TrimWithOccupancy ==
    /\ top.op = "trim" /\ ~IsNone(top.occupancy)
    /\ numConfs(tsrc) >= 1

\* the result is the source physically cut to the positions keep
IsHardResult(r, src, keep) ==
    /\ r.n_atoms = Len(keep)
    /\ IsNone(r.indices)
    /\ r.atoms = IF IsNone(src.atoms) THEN None
                 ELSE Some(Take(Val(src.atoms), keep))
    /\ r.coords = Take(src.coords, keep)
    /\ r.confs = TakeCols(src.confs, keep)
    /\ r.weights = Some(TakeCols(Val(src.weights), keep))
    /\ r.labels = src.labels

\* the result keeps the source's underlying data and has as many active atoms
\* as keep
IsSoftResult(r, src, keep) ==
    /\ r.n_atoms = src.n_atoms
    /\ Len(r.coords) = Len(src.coords)
    /\ \A c \in 1 .. Len(r.confs) :
          Len(r.confs[c]) = src.n_atoms /\ Len(Val(r.weights)[c]) = src.n_atoms
    /\ numSelected(r) = Len(keep)

\* C4 as stated: for any ensemble with a conformation and any t in (0,1], a
\* hard trim returns exactly the active atoms with occupancy >= t, in order,
\* with coordinates and weights cut to those columns, and a soft trim returns
\* an ensemble of the source's underlying size with as many active atoms
C4_KeepSetAnyEnsemble ==
    TrimWithOccupancy =>
        /\ tres.raised = ""
        /\ IF top.hard
           THEN IsHardResult(tres.value, tsrc, KeepIdx(tsrc, Val(top.occupancy)))
           ELSE IsSoftResult(tres.value, tsrc, KeepIdx(tsrc, Val(top.occupancy)))

\* C4 amended: when at least one active atom has occupancy >= t, a hard trim
\* returns exactly the active atoms with occupancy >= t, in order, with
\* coordinates and weights cut to those columns; a soft trim of an ensemble
\* with an atom structure attached returns an ensemble of the source's
\* underlying size with as many active atoms; a soft trim of an ensemble
\* without atoms attached is carried out as a hard trim
C4_KeepSet ==
    (TrimWithOccupancy /\ KeepIdx(tsrc, Val(top.occupancy)) # <<>>) =>
        /\ tres.raised = ""
        /\ (top.hard \/ IsNone(tsrc.atoms)) =>
              IsHardResult(tres.value, tsrc, KeepIdx(tsrc, Val(top.occupancy)))
        /\ (~top.hard /\ ~IsNone(tsrc.atoms)) =>
              IsSoftResult(tres.value, tsrc, KeepIdx(tsrc, Val(top.occupancy)))

C4_Witness ==
    /\ TrimWithOccupancy /\ ~top.hard /\ ~IsNone(tsrc.atoms)
    /\ Val(top.occupancy) = OccDen
    /\ tres.raised = ""
    /\ numSelected(tres.value) >= 1
    /\ numSelected(tres.value) < numSelected(tsrc)
    /\ tres.value.n_atoms = NAtoms
    /\ \A lib \in LibraryChoices(tsrc) :
          trimPDBEnsemble(tsrc, top.occupancy, TRUE, lib).value.n_atoms
              = numSelected(tres.value)

\* the last call was a trim that took the soft branch and returned
SoftCase ==
    /\ top.op = "trim" /\ tres.raised = ""
    /\ ~top.hard /\ ~IsNone(tsrc.atoms) /\ ~IsNone(top.occupancy)

\* C5: a soft trim of an ensemble with active selection S gives the active
\* selection { S[k] : occupancy of active atom k >= t } as positions into the
\* underlying atom set, over the source's own untrimmed coordinates and
\* weights; and after any sequence of soft trims the active selection is the
\* intersection of the individual keep-sets
C5_SoftTrimsCompose ==
    /\ SoftCase =>
          LET S == ActiveIdx(tsrc)
              r == tres.value
          IN  /\ ActiveIdx(r) =
                    SortedSeq({S[k] : k \in {x \in 1 .. Len(S) :
                                  S[x] \in KeepSet(tsrc, Val(top.occupancy))}})
              /\ Range(ActiveIdx(r)) \subseteq Range(S)
              /\ r.atoms = tsrc.atoms /\ r.n_atoms = tsrc.n_atoms
              /\ r.coords = tsrc.coords
              /\ r.confs = tsrc.confs
              /\ r.weights = tsrc.weights
    /\ top.op = "trim" => Range(ActiveIdx(ens)) = kept

C5_Witness ==
    /\ SoftCase
    /\ ~IsNone(tsrc.indices)
    /\ numSelected(tsrc) >= 1
    /\ ActiveIdx(tsrc)[1] # 1
    /\ numSelected(tres.value) >= 1
    /\ numSelected(tres.value) < numSelected(tsrc)

\* the last call was a trim of an ensemble without atoms, or without occupancy
ForcedHard ==
    /\ top.op = "trim"
    /\ IsNone(tsrc.atoms) \/ IsNone(top.occupancy)

\* C6 as stated: the trim raises when the ensemble has no atom structure
\* attached or occupancy is None
C6_ForcedHardRaises ==
    ForcedHard => tres.raised # ""

\* the columns a forced hard trim keeps: all the active atoms when occupancy
\* is None
ForcedKeep ==
    IF IsNone(top.occupancy) THEN ActiveIdx(tsrc)
    ELSE KeepIdx(tsrc, Val(top.occupancy))

\* C6 amended: without atoms attached, or with occupancy None, the trim takes
\* the hard path whatever hard says and, on an ensemble with a conformation
\* and at least one atom to keep, returns the source cut to the kept columns
\* (to all the active atoms when occupancy is None) instead of raising
C6_ForcedHardReturns ==
    (ForcedHard /\ numConfs(tsrc) >= 1 /\ ForcedKeep # <<>>) =>
        /\ tres.raised = ""
        /\ IsHardResult(tres.value, tsrc, ForcedKeep)

C6_Witness ==
    /\ ForcedHard /\ ~top.hard /\ IsNone(tsrc.atoms)
    /\ tres.raised = ""
    /\ tres.value.n_atoms >= 1
    /\ tres.value.n_atoms < tsrc.n_atoms

\* C9: without normalisation the occupancy of an atom is the number of
\* conformations with a nonzero weight there, in 0..M; with normed=True it is
\* that count over M, within [0,1], and 1 for an atom present in every
\* conformation; no conformations or no weights raise an error
C9_Occupancies ==
    top.op = "occ" =>
        LET m == numConfs(tsrc)
        IN  IF m = 0 \/ IsNone(tsrc.weights) THEN tres.raised = "ValueError"
            ELSE /\ tres.raised = ""
                 /\ Len(tres.value) = tsrc.n_atoms
                 /\ \A a \in 1 .. tsrc.n_atoms :
                       LET present == {c \in 1 .. m : Val(tsrc.weights)[c][a] # 0}
                           o == tres.value[a]
                       IN  /\ o.num = Cardinality(present)
                           /\ o.num \in 0 .. m
                           /\ o.den = IF top.normed THEN m ELSE 1
                           /\ top.normed => (0 <= o.num /\ o.num <= o.den)
                           /\ (top.normed /\ present = 1 .. m) => o.num = o.den

C9_Witness ==
    /\ top.op = "occ" /\ top.normed /\ tres.raised = ""
    /\ numConfs(tsrc) = 2
    /\ \E a, b \in 1 .. tsrc.n_atoms :
          /\ Val(tsrc.weights)[1][a] = 2 /\ Val(tsrc.weights)[2][a] = 1
          /\ tres.value[a] = [num |-> 2, den |-> 2]
          /\ Val(tsrc.weights)[1][b] = 0 /\ Val(tsrc.weights)[2][b] = 2
          /\ tres.value[b] = [num |-> 1, den |-> 2]

(***************************************************************************)
(* Claims about buildPDBEnsemble                                           *)
(***************************************************************************)
BuildDoneWithOccupancy == bpc = "done" /\ ~IsNone(bin.occupancy)

\* C7 as stated: with an occupancy threshold, the columns below it have been
\* physically removed from the reference frame and from every conformation
C7_HardTrimmed ==
    BuildDoneWithOccupancy =>
        IsHardResult(bens, bpre, KeepIdx(bpre, Val(bin.occupancy)))

\* C7 amended: with an occupancy threshold that at least one column meets,
\* the build applies a soft trim: the returned ensemble keeps every column of
\* the reference frame and of every conformation's coordinates and weights,
\* and its active selection is exactly the columns whose occupancy is at least
\* the threshold
C7_SoftTrimmed ==
    (BuildDoneWithOccupancy /\ KeepIdx(bpre, Val(bin.occupancy)) # <<>>) =>
        /\ bens.n_atoms = bpre.n_atoms
        /\ bens.atoms = bpre.atoms
        /\ bens.coords = bpre.coords
        /\ bens.confs = bpre.confs
        /\ bens.weights = bpre.weights
        /\ bens.labels = bpre.labels
        /\ ActiveIdx(bens) = KeepIdx(bpre, Val(bin.occupancy))

C7_Witness ==
    /\ BuildDoneWithOccupancy
    /\ numConfs(bens) >= 2
    /\ numSelected(bens) >= 1
    /\ numSelected(bens) < bens.n_atoms

\* the inputs among the first k that are None or that the mapper gave no map
UnmappedUpTo(k) ==
    LET RECURSIVE upto(_)
        upto(i) ==
            IF i = 0 THEN <<>>
            ELSE IF IsNone(nmaps[i]) \/ nmaps[i] = Some(0)
                 THEN Append(upto(i - 1), DefaultLabels(bin.atomics)[i])
                 ELSE upto(i - 1)
    IN  upto(k)

\* the number of AtomMaps the mapper gave for the first k inputs
MapsUpTo(k) ==
    LET RECURSIVE upto(_)
        upto(i) ==
            IF i = 0 THEN 0
            ELSE upto(i - 1) + (IF IsNone(nmaps[i]) THEN 0 ELSE Val(nmaps[i]))
    IN  upto(k)

\* C8: for a list of two or more inputs, any of them None, the call returns
\* the ensemble without raising, every input that is None or unmapped is in
\* unmapped once and adds no conformation, and every other input adds one
\* conformation per AtomMap
C8_EveryInputAccounted ==
    (bpc \in {"done", "raised"} /\ Len(bin.atomics) >= 2) =>
        /\ bpc = "done"
        /\ Len(nmaps) = Len(bin.atomics)
        /\ unmapped = UnmappedUpTo(Len(bin.atomics))
        /\ numConfs(bens) = MapsUpTo(Len(bin.atomics))

(***************************************************************************)
(* Claims about alignPDBEnsemble                                           *)
(***************************************************************************)
\* the 1-based model number the label encodes, None when it encodes none
ModelNumber(label) ==
    IF IsNone(AcsiOf(label)) THEN None ELSE Some(Val(AcsiOf(label)) + 1)

\* the conformation's source file is missing, or its label encodes a model
\* number outside 1..numCoordsets
Failing(conf) ==
    \/ ~afiles[Prefix4(conf.label)]
    \/ /\ ~IsNone(ModelNumber(conf.label))
       /\ Val(ModelNumber(conf.label)) \notin 1 .. ancs[Prefix4(conf.label)]

\* C10: when every conformation carries a transformation, the output has one
\* entry per conformation in input order (a bare value for one conformation),
\* None for a conformation whose file is missing or whose model number is
\* outside 1..numCoordsets and the output path otherwise, and a failing
\* conformation does not stop the others
C10_OneEntryPerConformation ==
    (apc = "done" /\ \A k \in 1 .. Len(aconfs) : aconfs[k].trans) =>
        /\ Len(output) = Len(aconfs)
        /\ \A k \in 1 .. Len(aconfs) :
              output[k] = IF Failing(aconfs[k]) THEN None
                          ELSE Some(Prefix4(aconfs[k].label))
        /\ aret.bare = (Len(aconfs) = 1)
        /\ aret.value = output

\* the positions of the conformations whose output entry is the path of pdb
Transformed(pdb) == {k \in 1 .. Len(output) : output[k] = Some(pdb)}

\* the writePDB calls made for pdb, as positions in writes
WritesOf(pdb) == {w \in 1 .. Len(writes) : writes[w].pdb = pdb}

\* the conformations whose transformation the written structure carries, in
\* any of its coordinate sets
Carried(ag) == UNION {Range(ag.applied[c]) : c \in 1 .. ag.ncs}

\* the written file of pdb carries each transformation of its conformations once
Accumulated(w, pdb) ==
    /\ Carried(writes[w].ag) = Transformed(pdb)
    /\ \A c, d \in 1 .. writes[w].ag.ncs :
          /\ Len(writes[w].ag.applied[c]) = Cardinality(Range(writes[w].ag.applied[c]))
          /\ c # d => Range(writes[w].ag.applied[c])
                          \cap Range(writes[w].ag.applied[d]) = {}

\* C11 as stated: every identifier with a transformed conformation is written
\* by exactly one write, made after all the conformations were processed, and
\* the file carries every transformation applied under that identifier
C11_WrittenOnceAtEnd ==
    /\ apc = "loop" => writes = <<>>
    /\ apc = "done" =>
          \A pdb \in PdbIds :
              IF Transformed(pdb) = {} THEN WritesOf(pdb) = {}
              ELSE /\ Cardinality(WritesOf(pdb)) = 1
                   /\ \A w \in WritesOf(pdb) :
                         writes[w].at = "end" /\ Accumulated(w, pdb)

\* C11 amended: a structure with several models is written by exactly one
\* write, made after all the conformations were processed, and the file
\* carries every transformation applied under that identifier; a structure
\* with one model is written inside the loop, once per transformed
\* conformation, each file carrying that conformation's transformation alone
C11_MultiModelWrittenOnceAtEnd ==
    /\ apc = "loop" =>
          \A w \in 1 .. Len(writes) :
              writes[w].at = "loop" /\ ancs[writes[w].pdb] = 1
    /\ apc = "done" =>
          \A pdb \in PdbIds :
              IF Transformed(pdb) = {} THEN WritesOf(pdb) = {}
              ELSE IF ancs[pdb] > 1
              THEN /\ Cardinality(WritesOf(pdb)) = 1
                   /\ \A w \in WritesOf(pdb) :
                         writes[w].at = "end" /\ Accumulated(w, pdb)
              ELSE /\ Cardinality(WritesOf(pdb)) = Cardinality(Transformed(pdb))
                   /\ \A w \in WritesOf(pdb) :
                         /\ writes[w].at = "loop"
                         /\ \E k \in Transformed(pdb) :
                               writes[w].ag.applied = <<(<<k>>)>>
                   /\ \A k \in Transformed(pdb) : \E w \in WritesOf(pdb) :
                         writes[w].ag.applied = <<(<<k>>)>>

C11_Witness ==
    /\ apc = "done"
    /\ \E pdb \in PdbIds :
          /\ ancs[pdb] > 1
          /\ Cardinality(Transformed(pdb)) >= 2
          /\ \E w \in WritesOf(pdb) :
                \A c \in 1 .. writes[w].ag.ncs : writes[w].ag.applied[c] # <<>>
    /\ \E pdb \in PdbIds :
          ancs[pdb] = 1 /\ \E w \in WritesOf(pdb) : writes[w].at = "loop"

====
